---- MODULE Spec2Model ----
(***************************************************************************)
(* Model of the English->Urdu translation service:                         *)
(*   src/services/translator.py  GoogleTranslateWebService, AutoTranslator *)
(*   src/app.py                  get_translator and the request handlers   *)
(*                                                                         *)
(* Two specifications share the actions of the translator.                 *)
(*   Spec        one client of one AutoTranslator, calling translate and   *)
(*               close one after the other (as demo_auto_translation does) *)
(*   SpecServer  the request handlers of app.py running on NumThreads      *)
(*               threads against the global translator                     *)
(* Seven more run one part of the program on its own.                        *)
(*   SpecGet     get_translator of app.py under concurrent requests        *)
(*   SpecFacade  AutoTranslator.translate called with either slow_mode     *)
(*   SpecLaunch  GoogleTranslateWebService.__init__ on every kind of host  *)
(*   SpecUrdu    _contains_urdu on strings around the ends of its ranges   *)
(*   SpecHttp    the field tests of the two POST handlers of app.py        *)
(*   SpecInput   one attempt's clearing and typing, key by key             *)
(*   SpecExtract _extract_translation, lookup by lookup                    *)
(*                                                                         *)
(* A text is a sequence of code points.  The browser and the remote page   *)
(* are the environment: every driver call may fail, a navigation may end   *)
(* anywhere, and the page may show any elements.                           *)
(***************************************************************************)
EXTENDS Integers, Sequences, FiniteSets, TLC

\* ------------------------------------------------------------------ bounds
NumThreads == 2      \* request threads of the server
MaxCalls   == 3      \* calls one client makes on the facade
MaxRequests == 2     \* requests the server receives
MaxBatch   == 2      \* items of a batch
MaxElems   == 1      \* elements the result page shows to one extraction
MaxLen     == 2      \* code points of a string given to _contains_urdu
MaxTexts   == 11     \* items of the texts array of a request body
MaxFound   == 2      \* elements one find_elements call returns

\* ------------------------------------------------------------------- texts
\* what str.strip() removes (the members of it that texts here can hold)
Whitespace == {9, 10, 11, 12, 13, 32}

\* the texts used: "", " ", "a", Arabic alef, and "a" followed by alef
Texts == {<< >>, <<32>>, <<97>>, <<1575>>, <<97, 1575>>}

Lists == UNION {[1..n -> Texts] : n \in 0..MaxBatch}

Range(s) == {s[i] : i \in DOMAIN s}

\* range(0x0600, 0x06FF) and range(0xFE70, 0xFEFF): the upper end is excluded
urdu_range   == 1536..1790
urdu_range_2 == 65136..65278

\* a detection that wants every character in the ranges
ContainsOnlyUrdu(text) ==
    /\ text # << >>
    /\ \A i \in DOMAIN text : text[i] \in urdu_range \/ text[i] \in urdu_range_2
\* _contains_urdu
ContainsUrdu(text) ==
    /\ text # << >>
    /\ \E i \in DOMAIN text : text[i] \in urdu_range \/ text[i] \in urdu_range_2

\* str.strip()
Strip(text) ==
    LET keep == {i \in DOMAIN text : text[i] \notin Whitespace}
    IN  IF keep = {} THEN << >>
        ELSE LET lo == CHOOSE i \in keep : \A j \in keep : i <= j
                 hi == CHOOSE i \in keep : \A j \in keep : j <= i
             IN  SubSeq(text, lo, hi)

\* a test that knows the empty string only
IsEmpty(text) == text = << >>
\* translate_single, line 392: not text or not text.strip()
IsBlank(text) == text = << >> \/ Strip(text) = << >>

\* ------------------------------------------------------------------- dicts
EmptyDict == [k \in {} |-> << >>]
Put(d, key, v) == [k \in (DOMAIN d) \cup {key} |-> IF k = key THEN v ELSE d[k]]
\* {addresses: translated}
Single(key, v) == [k \in {key} |-> v]
\* {addr: addr for addr in addresses}
IdentityDict(list) == [k \in Range(list) |-> k]


\* ----------------------------------------------------------------- inputs
\* translate(addresses): a string or a list of strings
Str(text)  == [kind |-> "str",  val |-> text]
List(list) == [kind |-> "list", val |-> list]
NoInput    == [kind |-> "none", val |-> << >>]

Inputs == {Str(x) : x \in Texts} \cup {List(l) : l \in Lists}

\* what the server's requests carry: POST /translate {text}, POST /translate/batch {texts}
ServerInputs == {Str(<<97>>), List(<< <<97>> >>)}

Threads == 1..NumThreads
\* the one thread of the sequential client
Main == 1

\* --------------------------------------------------------------- variables
VARIABLES
    translator,       \* app.py global: 0 (None) or the AutoTranslator's index
    translator_lock,  \* app.py global Lock: 0 (free) or the thread holding it
    service,          \* service[i]: AutoTranslator i's self.service, 0 (None) or a session index
    sessions,         \* the GoogleTranslateWebService objects constructed, in order
    launchLog,        \* outcome of every constructor run, in order: "ok" or "failed"
    calls,            \* calls (requests) started so far
    closeOutcome,     \* how the last close() ended, "none" when the last call was no close()
    pc,               \* pc[t]: where thread t is
    addresses,        \* argument of the translate call thread t is in
    inst,             \* the AutoTranslator thread t calls
    self,             \* the session whose translate_single / translate_batch thread t runs
    idx,              \* translate_batch: 1-based position in texts
    results,          \* translate_batch: the results dict
    cur,              \* translate_single: text
    attempt,          \* translate_single: the loop variable
    attemptsMade,     \* submit steps started by the current translate_single
    how,              \* how the last translate_single of this call returned: "blank",
                      \* "ok" (line 454), "ok_soft" (line 469) or "gaveup"
    failed,           \* positions of the batch items whose translate_single gave up
    ret,              \* what translate returned to its caller
    recovered,        \* the recoveries the current translate_single has made, in order:
                      \* "soft" (lines 459-471) and "renav" (lines 482-486)
    slow_mode,        \* the slow_mode argument of the translate call thread t is in
    config,           \* config[i]: AutoTranslator i's self.typing_delay and self.wait_time
    nav,              \* what the step just taken did with _navigate_to_translator:
                      \* "none" (not called), "ok" (returned) or "raised"
    call,             \* a function called on its own: [fn, arg]
    answer,           \* what that call returned, NoAnswer before it has
    ext,              \* _extract_translation step by step: selector, elements, result
    inp               \* lines 421-447 step by step: the input field while one attempt fills it

globals == <<translator, translator_lock, service, sessions, launchLog, calls, closeOutcome>>
batchVars == <<idx, results, failed>>
singleVars == <<cur, attempt, attemptsMade, how, recovered>>
facadeVars == <<slow_mode, config>>
\* the variables of the parts that are run on their own
aux == <<call, answer, ext, inp>>
\* the variables of the translator and of the server
main == <<translator, translator_lock, service, sessions, launchLog, calls, closeOutcome,
          pc, addresses, inst, self, idx, results, cur, attempt, attemptsMade, how,
          failed, ret, recovered, slow_mode, config, nav>>
vars == <<translator, translator_lock, service, sessions, launchLog, calls, closeOutcome,
          pc, addresses, inst, self, idx, results, cur, attempt, attemptsMade, how,
          failed, ret, recovered, slow_mode, config, nav, call, answer, ext, inp>>

NoRet == [kind |-> "none", val |-> EmptyDict, err |-> "none"]
NoCall == [fn |-> "none", arg |-> << >>]
NoAnswer == [kind |-> "none"]
NoExt == [at |-> "idle"]
NoInp == [at |-> "idle"]
Returned(d, e) == [kind |-> "dict", val |-> d, err |-> e]

\* ---------------------------------------------------------------- sessions
\* GoogleTranslateWebService after a successful __init__
\* closes: how often close() has been called on it
\* a delay of d hundredths of a second and a wait of w seconds
Timing(d, w) == [typing_delay |-> d, wait_time |-> w]
\* GoogleTranslateWebService.__init__, line 131: typing_delay = 0.05, wait_time = 5
ServiceDefaults == Timing(5, 5)
\* AutoTranslator(headless=True), lines 583 and 633: typing_delay = 0, wait_time = 5
DemoConfig == Timing(0, 5)
\* AutoTranslator(headless=True, wait_time=2), app.py lines 25-28
ServerConfig == Timing(0, 2)
\* lines 600-611: slow_mode chooses 0.03 and 8, otherwise the AutoTranslator's own values
ServiceTiming(slow, own) == IF slow THEN Timing(3, 8) ELSE own

NewSession == [driver |-> "open", url |-> "blank", closes |-> 0,
               typing_delay |-> ServiceDefaults.typing_delay,
               wait_time |-> ServiceDefaults.wait_time]
\* lines 133-134: the constructor stores the timing it is given
SessionWith(timing) ==
    [NewSession EXCEPT !.typing_delay = timing.typing_delay, !.wait_time = timing.wait_time]

\* url is "blank" (nothing loaded yet), "translate" (translate.google.com) or "other"
\* a translate_single that navigates in every attempt
NeverOnPage(s) == FALSE
\* line 397: "translate.google.com" in self.driver.current_url
OnTranslatePage(s) == sessions[s].url = "translate"

\* _navigate_to_translator: how it can end. It raises when a driver.get or the
\* wait for the textarea fails, anywhere; an unexpected URL only prints a warning.
NavOutcomes(s) ==
    IF sessions[s].driver # "open"
    THEN {[raised |-> TRUE, url |-> sessions[s].url]}
    ELSE {[raised |-> TRUE, url |-> u] : u \in {sessions[s].url, "other", "translate"}}
         \cup {[raised |-> FALSE, url |-> u] : u \in {"translate", "other"}}

Navigated(s, o) == [sessions EXCEPT ![s].url = o.url]
NavResult(o) == IF o.raised THEN "raised" ELSE "ok"

\* ------------------------------------------------------------ construction
\* what the host offers to one constructor run
\* flag, languages: whether the first, the second execute_script of
\* _setup_stealth_mode returns normally
LaunchEnvs == [pip : BOOLEAN, wdm : BOOLEAN, which : BOOLEAN, common : BOOLEAN,
               chrome : BOOLEAN, manual : BOOLEAN, chromeManual : BOOLEAN,
               flag : BOOLEAN, languages : BOOLEAN]

\* RuntimeBrowserSetup.try_system_chromedriver
try_system_chromedriver(env) == env.which \/ env.common
\* RuntimeBrowserSetup.setup_chrome_driver
setup_chrome_driver(env) == env.wdm \/ try_system_chromedriver(env)
\* _setup_environment returns (TRUE) or raises (FALSE)
SetupEnvironmentOk(env) == env.pip /\ setup_chrome_driver(env)
\* _setup_driver returns (TRUE) or raises (FALSE)
SetupDriverOk(env) == env.chrome \/ (env.manual /\ env.chromeManual)
\* GoogleTranslateWebService.__init__ returns (TRUE) or raises (FALSE)
InitOk(env) == SetupEnvironmentOk(env) /\ SetupDriverOk(env)

\* the steps one constructor run takes, in the order it takes them:
\*   "packages"  install_required_packages (pip)
\*   "managed"   ChromeDriverManager().install()
\*   "path"      which chromedriver
\*   "common"    the common_paths of the platform
\*   "launch"    webdriver.Chrome with the driver found
\*   "download"  _install_chromedriver_manually (the pinned release)
\*   "launch_download"  webdriver.Chrome with the downloaded driver
\*   "inject_webdriver" execute_script clearing navigator.webdriver
\*   "inject_languages" execute_script overriding navigator.languages
SystemSteps(env) ==
    <<"path">> \o (IF env.which THEN << >> ELSE <<"common">>)
DriverSteps(env) ==
    <<"managed">> \o (IF env.wdm THEN << >> ELSE SystemSteps(env))
\* a launch without _setup_stealth_mode
NoStealthSteps(env) == << >>
\* _setup_stealth_mode, lines 239-254: one try block around both injections
StealthSteps(env) ==
    <<"inject_webdriver">> \o (IF env.flag THEN <<"inject_languages">> ELSE << >>)
LaunchSteps(env) ==
    <<"launch">> \o
    (IF env.chrome THEN StealthSteps(env)
     ELSE <<"download">> \o
          (IF env.manual
           THEN <<"launch_download">> \o
                (IF env.chromeManual THEN StealthSteps(env) ELSE << >>)
           ELSE << >>))
InitSteps(env) ==
    <<"packages">> \o
    (IF ~env.pip THEN << >>
     ELSE DriverSteps(env) \o
          (IF setup_chrome_driver(env) THEN LaunchSteps(env) ELSE << >>))

\* the fallback chain of the driver, and whether a step of it found a driver
Chain == <<"managed", "path", "common", "download">>
Found(env, step) ==
    CASE step = "managed" -> env.wdm
      [] step = "path" -> env.which
      [] step = "common" -> env.common
      [] step = "download" -> env.manual

\* ---------------------------------------------------------- translate_single
\* range(3)
NumAttempts == 3
\* a loop that tries to recover after its last attempt too
RetryAlways(a) == TRUE
RetryThrice(a) == a < 3
\* lines 457 and 479: attempt < 2
RetryLeft(a) == a < 2
\* a translate_single that answers a failed request with the last extraction
GiveUpValueEmpty(text) == << >>
\* lines 476, 489, 491: return text
GiveUpValue(text) == text
\* line 452
Accept(translation, text) ==
    translation # << >> /\ translation # text /\ Len(Strip(translation)) > 0
\* line 468
AcceptRecheck(translation, text) == translation # << >> /\ translation # text

\* what one extraction can find on the page: element texts in the order tried
PageElems == UNION {[1..n -> Texts] : n \in 0..MaxElems}
Visible(s) == IF sessions[s].driver = "open" THEN PageElems ELSE {<< >>}

\* an extraction that takes the first non-empty text, whatever its script
ExtractFirstText(elems) ==
    LET ok == {i \in DOMAIN elems : Strip(elems[i]) # << >>}
    IN  IF ok = {} THEN << >>
        ELSE Strip(elems[CHOOSE i \in ok : \A j \in ok : i <= j])
\* _extract_translation over the elements in the order it visits them
ExtractTranslation(elems) ==
    LET ok == {i \in DOMAIN elems :
                 Strip(elems[i]) # << >> /\ ContainsUrdu(Strip(elems[i]))}
    IN  IF ok = {} THEN << >>
        ELSE Strip(elems[CHOOSE i \in ok : \A j \in ok : i <= j])

SinglePcs == {"ts_page", "ts_submit", "ts_extract", "ts_soft", "ts_except"}
BatchPcs == {"tb_nav", "tb_item"}
SessionPcs == SinglePcs \cup BatchPcs

\* a translate_batch that records only the items that were translated
StoreTranslatedOnly(d, text, translated) ==
    IF translated = text THEN d ELSE Put(d, text, translated)
\* translate_batch, line 561: results[text] = translated
StoreResult(d, text, translated) == Put(d, text, translated)

\* translate_single(text) returns v to its caller, having ended the way h
Finish(t, text, v, h) ==
    /\ how' = [how EXCEPT ![t] = h]
    /\ IF addresses[t].kind = "str"
       THEN /\ ret' = [ret EXCEPT ![t] = Returned(Single(addresses[t].val, v), "none")]
            /\ pc' = [pc EXCEPT ![t] = "t_return"]
            /\ UNCHANGED <<idx, results, failed>>
       ELSE /\ results' = [results EXCEPT ![t] = StoreResult(results[t], text, v)]
            /\ idx' = [idx EXCEPT ![t] = idx[t] + 1]
            /\ failed' = [failed EXCEPT ![t] =
                            IF h = "gaveup" THEN failed[t] \cup {idx[t]} ELSE failed[t]]
            /\ pc' = [pc EXCEPT ![t] = "tb_item"]
            /\ UNCHANGED ret

\* the call translate_single(text): lines 392-394
EnterSingle(t, text) ==
    IF IsBlank(text)
    THEN /\ Finish(t, text, text, "blank")
         /\ cur' = [cur EXCEPT ![t] = text]
         /\ attemptsMade' = [attemptsMade EXCEPT ![t] = 0]
         /\ recovered' = [recovered EXCEPT ![t] = << >>]
         /\ UNCHANGED attempt
    ELSE /\ cur' = [cur EXCEPT ![t] = text]
         /\ recovered' = [recovered EXCEPT ![t] = << >>]
         /\ attempt' = [attempt EXCEPT ![t] = 0]
         /\ attemptsMade' = [attemptsMade EXCEPT ![t] = 0]
         /\ how' = [how EXCEPT ![t] = "none"]
         /\ pc' = [pc EXCEPT ![t] = "ts_page"]
         /\ UNCHANGED <<idx, results, failed, ret>>

\* the for loop goes on to its next value, or falls off its end (line 491)
NextAttempt(t) ==
    IF attempt[t] + 1 < NumAttempts
    THEN /\ attempt' = [attempt EXCEPT ![t] = attempt[t] + 1]
         /\ pc' = [pc EXCEPT ![t] = "ts_page"]
         /\ UNCHANGED <<idx, results, failed, ret, how>>
    ELSE /\ Finish(t, cur[t], GiveUpValue(cur[t]), "gaveup")
         /\ UNCHANGED attempt

\* lines 397-398: the URL check and, off the page, the navigation
TsPage(t) ==
    /\ pc[t] = "ts_page"
    /\ LET s == self[t] IN
       \/ /\ pc' = [pc EXCEPT ![t] = "ts_except"]    \* current_url raises
          /\ nav' = "none"
          /\ UNCHANGED sessions
       \/ /\ sessions[s].driver = "open"
          /\ OnTranslatePage(s)
          /\ pc' = [pc EXCEPT ![t] = "ts_submit"]
          /\ nav' = "none"
          /\ UNCHANGED sessions
       \/ /\ sessions[s].driver = "open"
          /\ ~OnTranslatePage(s)
          /\ \E o \in NavOutcomes(s) :
                /\ sessions' = Navigated(s, o)
                /\ nav' = NavResult(o)
                /\ pc' = [pc EXCEPT ![t] = IF o.raised THEN "ts_except" ELSE "ts_submit"]
    /\ UNCHANGED <<translator, translator_lock, service, launchLog, calls, closeOutcome>>
    /\ UNCHANGED <<addresses, inst, self, idx, results, failed, ret>>
    /\ UNCHANGED singleVars
    /\ UNCHANGED facadeVars
    /\ UNCHANGED aux

\* lines 400-447: find the input, clear it, type the text
TsSubmit(t) ==
    /\ pc[t] = "ts_submit"
    /\ attemptsMade' = [attemptsMade EXCEPT ![t] = attemptsMade[t] + 1]
    /\ \/ pc' = [pc EXCEPT ![t] = "ts_except"]       \* no input found, or a driver call raises
       \/ /\ sessions[self[t]].driver = "open"
          /\ pc' = [pc EXCEPT ![t] = "ts_extract"]
    /\ UNCHANGED globals
    /\ UNCHANGED <<addresses, inst, self, idx, results, failed, ret, cur, attempt, how>>
    /\ UNCHANGED recovered
    /\ nav' = "none"
    /\ UNCHANGED facadeVars
    /\ UNCHANGED aux

\* lines 450-476: extract, and decide
TsExtract(t) ==
    /\ pc[t] = "ts_extract"
    /\ \E elems \in Visible(self[t]) :
          LET translation == ExtractTranslation(elems) IN
          IF Accept(translation, cur[t])
          THEN Finish(t, cur[t], translation, "ok")
          ELSE IF RetryLeft(attempt[t])
               THEN /\ pc' = [pc EXCEPT ![t] = "ts_soft"]
                    /\ UNCHANGED <<idx, results, failed, ret, how>>
               ELSE Finish(t, cur[t], GiveUpValue(cur[t]), "gaveup")
    /\ UNCHANGED globals
    /\ UNCHANGED <<addresses, inst, self, cur, attempt, attemptsMade, recovered>>
    /\ nav' = "none"
    /\ UNCHANGED facadeVars
    /\ UNCHANGED aux

\* lines 459-474: click away and back, extract again, then continue
TsSoft(t) ==
    /\ pc[t] = "ts_soft"
    /\ \/ NextAttempt(t)                              \* a click raises: pass
       \/ /\ sessions[self[t]].driver = "open"
          /\ \E elems \in Visible(self[t]) :
                LET translation == ExtractTranslation(elems) IN
                IF AcceptRecheck(translation, cur[t])
                THEN Finish(t, cur[t], translation, "ok_soft") /\ UNCHANGED attempt
                ELSE NextAttempt(t)
    /\ recovered' = [recovered EXCEPT ![t] = Append(recovered[t], "soft")]
    /\ UNCHANGED globals
    /\ UNCHANGED <<addresses, inst, self, cur, attemptsMade>>
    /\ nav' = "none"
    /\ UNCHANGED facadeVars
    /\ UNCHANGED aux

\* lines 478-489: the handler of the attempt's exception
TsExcept(t) ==
    /\ pc[t] = "ts_except"
    /\ IF RetryLeft(attempt[t])
       THEN /\ \E o \in NavOutcomes(self[t]) :
                  /\ sessions' = Navigated(self[t], o)
                  /\ nav' = NavResult(o)
            /\ recovered' = [recovered EXCEPT ![t] = Append(recovered[t], "renav")]
            /\ NextAttempt(t)
       ELSE /\ Finish(t, cur[t], GiveUpValue(cur[t]), "gaveup")
            /\ nav' = "none"
            /\ UNCHANGED <<sessions, attempt, recovered>>
    /\ UNCHANGED <<translator, translator_lock, service, launchLog, calls, closeOutcome>>
    /\ UNCHANGED <<addresses, inst, self, cur, attemptsMade>>
    /\ UNCHANGED facadeVars
    /\ UNCHANGED aux


\* ---------------------------------------------------------- translate_batch
\* line 556: the batch's navigation; its exception ends the batch (lines 564-567)
TbNav(t) ==
    /\ pc[t] = "tb_nav"
    /\ \E o \in NavOutcomes(self[t]) :
          /\ sessions' = Navigated(self[t], o)
          /\ nav' = NavResult(o)
          /\ IF o.raised
             THEN /\ ret' = [ret EXCEPT ![t] = Returned(results[t], "none")]
                  /\ pc' = [pc EXCEPT ![t] = "t_return"]
             ELSE /\ pc' = [pc EXCEPT ![t] = "tb_item"]
                  /\ UNCHANGED ret
    /\ UNCHANGED <<translator, translator_lock, service, launchLog, calls, closeOutcome>>
    /\ UNCHANGED <<addresses, inst, self, idx, results, failed>>
    /\ UNCHANGED singleVars
    /\ UNCHANGED facadeVars
    /\ UNCHANGED aux

\* lines 558-562 and 567: the next item, or the end of the loop
TbItem(t) ==
    /\ pc[t] = "tb_item"
    /\ IF idx[t] <= Len(addresses[t].val)
       THEN EnterSingle(t, addresses[t].val[idx[t]])
       ELSE /\ ret' = [ret EXCEPT ![t] = Returned(results[t], "none")]
            /\ pc' = [pc EXCEPT ![t] = "t_return"]
            /\ UNCHANGED <<idx, results, failed>>
            /\ UNCHANGED singleVars
    /\ UNCHANGED globals
    /\ UNCHANGED <<addresses, inst, self>>
    /\ nav' = "none"
    /\ UNCHANGED facadeVars
    /\ UNCHANGED aux

\* ------------------------------------------------------------ AutoTranslator
\* lines 619-624: what translate answers when it caught an exception
FacadeFallback(a) ==
    IF a.kind = "str" THEN Single(a.val, a.val) ELSE IdentityDict(a.val)

\* line 598: if self.service is None
TCheck(t) ==
    /\ pc[t] = "t_check"
    /\ pc' = [pc EXCEPT ![t] = IF service[inst[t]] = 0 THEN "t_ctor" ELSE "t_dispatch"]
    /\ UNCHANGED globals
    /\ UNCHANGED <<addresses, inst, self, ret>>
    /\ UNCHANGED batchVars
    /\ UNCHANGED singleVars
    /\ nav' = "none"
    /\ UNCHANGED facadeVars
    /\ UNCHANGED aux

\* lines 600-611: GoogleTranslateWebService(...), and the assignment when it returns
TCtor(t) ==
    /\ pc[t] = "t_ctor"
    /\ \E env \in LaunchEnvs :
          IF InitOk(env)
          THEN /\ sessions' = Append(sessions,
                                      SessionWith(ServiceTiming(slow_mode[t], config[inst[t]])))
               /\ service' = [service EXCEPT ![inst[t]] = Len(sessions) + 1]
               /\ launchLog' = Append(launchLog, "ok")
               /\ pc' = [pc EXCEPT ![t] = "t_dispatch"]
               /\ UNCHANGED ret
          ELSE /\ launchLog' = Append(launchLog, "failed")
               /\ ret' = [ret EXCEPT ![t] = Returned(FacadeFallback(addresses[t]), "launch")]
               /\ pc' = [pc EXCEPT ![t] = "t_return"]
               /\ UNCHANGED <<sessions, service>>
    /\ UNCHANGED <<translator, translator_lock, calls, closeOutcome>>
    /\ UNCHANGED <<addresses, inst, self>>
    /\ UNCHANGED batchVars
    /\ UNCHANGED singleVars
    /\ nav' = "none"
    /\ UNCHANGED facadeVars
    /\ UNCHANGED aux

\* lines 613-617: self.service.translate_single(addresses) or .translate_batch(addresses)
TDispatch(t) ==
    /\ pc[t] = "t_dispatch"
    /\ self' = [self EXCEPT ![t] = service[inst[t]]]
    /\ IF addresses[t].kind = "str"
       THEN EnterSingle(t, addresses[t].val)
       ELSE /\ results' = [results EXCEPT ![t] = EmptyDict]
            /\ idx' = [idx EXCEPT ![t] = 1]
            /\ failed' = [failed EXCEPT ![t] = {}]
            /\ pc' = [pc EXCEPT ![t] = "tb_nav"]
            /\ UNCHANGED ret
            /\ UNCHANGED singleVars
    /\ UNCHANGED globals
    /\ UNCHANGED <<addresses, inst>>
    /\ nav' = "none"
    /\ UNCHANGED facadeVars
    /\ UNCHANGED aux

\* translate has returned: the caller takes the value
TReturn(t) ==
    /\ pc[t] = "t_return"
    /\ pc' = [pc EXCEPT ![t] = "idle"]
    /\ addresses' = [addresses EXCEPT ![t] = NoInput]
    /\ self' = [self EXCEPT ![t] = 0]
    /\ idx' = [idx EXCEPT ![t] = 0]
    /\ results' = [results EXCEPT ![t] = EmptyDict]
    /\ failed' = [failed EXCEPT ![t] = {}]
    /\ cur' = [cur EXCEPT ![t] = << >>]
    /\ attempt' = [attempt EXCEPT ![t] = 0]
    /\ attemptsMade' = [attemptsMade EXCEPT ![t] = 0]
    /\ how' = [how EXCEPT ![t] = "none"]
    /\ recovered' = [recovered EXCEPT ![t] = << >>]
    /\ ret' = [ret EXCEPT ![t] = NoRet]
    /\ UNCHANGED globals
    /\ UNCHANGED inst
    /\ nav' = "none"
    /\ UNCHANGED facadeVars
    /\ UNCHANGED aux

\* a close() without the try/except around driver.quit()
ServiceCloseUnguarded(quitOk) == IF quitOk THEN "quit" ELSE "raised"
\* GoogleTranslateWebService.close, lines 571-576, when driver.quit() ends as quitOk
ServiceCloseOutcome(quitOk) == IF quitOk THEN "quit" ELSE "quit_error"

\* the client calls translate(addresses)
CallTranslate(t) ==
    /\ pc[t] = "idle"
    /\ calls < MaxCalls
    /\ \E a \in Inputs : addresses' = [addresses EXCEPT ![t] = a]
    /\ slow_mode' = [slow_mode EXCEPT ![t] = FALSE]  \* line 645: the default
    /\ inst' = [inst EXCEPT ![t] = translator]
    /\ pc' = [pc EXCEPT ![t] = "t_check"]
    /\ calls' = calls + 1
    /\ closeOutcome' = "none"
    /\ UNCHANGED <<translator, translator_lock, service, sessions, launchLog>>
    /\ UNCHANGED <<self, ret>>
    /\ UNCHANGED batchVars
    /\ UNCHANGED singleVars
    /\ nav' = "none"
    /\ UNCHANGED config
    /\ UNCHANGED aux

\* a client calls translate(addresses, slow_mode), line 589
CallTranslateWith(t) ==
    /\ pc[t] = "idle"
    /\ calls < MaxCalls
    /\ \E a \in Inputs : addresses' = [addresses EXCEPT ![t] = a]
    /\ \E slow \in BOOLEAN : slow_mode' = [slow_mode EXCEPT ![t] = slow]
    /\ inst' = [inst EXCEPT ![t] = translator]
    /\ pc' = [pc EXCEPT ![t] = "t_check"]
    /\ calls' = calls + 1
    /\ closeOutcome' = "none"
    /\ UNCHANGED <<translator, translator_lock, service, sessions, launchLog>>
    /\ UNCHANGED <<self, ret>>
    /\ UNCHANGED batchVars
    /\ UNCHANGED singleVars
    /\ nav' = "none"
    /\ UNCHANGED config
    /\ UNCHANGED aux

\* lines 613-617 with the work of the session left out: the call runs on
\* self.service and comes back
Served(t) ==
    /\ pc[t] = "t_dispatch"
    /\ self' = [self EXCEPT ![t] = service[inst[t]]]
    /\ pc' = [pc EXCEPT ![t] = "idle"]
    /\ addresses' = [addresses EXCEPT ![t] = NoInput]
    /\ UNCHANGED globals
    /\ UNCHANGED <<inst, ret>>
    /\ UNCHANGED batchVars
    /\ UNCHANGED singleVars
    /\ nav' = "none"
    /\ UNCHANGED facadeVars
    /\ UNCHANGED aux

\* the client calls close(): AutoTranslator.close, lines 628-629
CallClose(t) ==
    /\ pc[t] = "idle"
    /\ calls < MaxCalls
    /\ calls' = calls + 1
    /\ LET s == service[translator] IN
       IF s = 0
       THEN /\ closeOutcome' = "no_service"
            /\ UNCHANGED sessions
       ELSE \E quitOk \in BOOLEAN, after \in {"open", "quit"} :
               /\ quitOk => after = "quit"
               /\ sessions[s].driver = "quit" => after = "quit"
               /\ closeOutcome' = ServiceCloseOutcome(quitOk)
               /\ sessions' = [sessions EXCEPT ![s].driver = after,
                                                ![s].closes = sessions[s].closes + 1]
    /\ UNCHANGED <<translator, translator_lock, service, launchLog>>
    /\ UNCHANGED <<pc, addresses, inst, self, ret>>
    /\ UNCHANGED batchVars
    /\ UNCHANGED singleVars
    /\ nav' = "none"
    /\ UNCHANGED facadeVars
    /\ UNCHANGED aux

\* ----------------------------------------------------------------- app.py
\* a request handler starts: translate() or translate_batch(), lines 46-53 and 85-92 passed
Request(t) ==
    /\ pc[t] = "idle"
    /\ calls < MaxRequests
    /\ \E a \in ServerInputs : addresses' = [addresses EXCEPT ![t] = a]
    /\ slow_mode' = [slow_mode EXCEPT ![t] = FALSE]  \* lines 59 and 97: the default
    /\ pc' = [pc EXCEPT ![t] = "gt_acquire"]
    /\ calls' = calls + 1
    /\ UNCHANGED <<translator, translator_lock, service, sessions, launchLog, closeOutcome>>
    /\ UNCHANGED <<inst, self, ret>>
    /\ UNCHANGED batchVars
    /\ UNCHANGED singleVars
    /\ nav' = "none"
    /\ UNCHANGED config
    /\ UNCHANGED aux

\* a lock that holds nobody back
LockIgnored == TRUE
\* whether a thread may enter `with translator_lock`
LockFree == translator_lock = 0

\* get_translator, line 23: with translator_lock
GtAcquire(t) ==
    /\ pc[t] = "gt_acquire"
    /\ LockFree
    /\ translator_lock' = t
    /\ pc' = [pc EXCEPT ![t] = "gt_check"]
    /\ UNCHANGED <<translator, service, sessions, launchLog, calls, closeOutcome>>
    /\ UNCHANGED <<addresses, inst, self, ret>>
    /\ UNCHANGED batchVars
    /\ UNCHANGED singleVars
    /\ nav' = "none"
    /\ UNCHANGED facadeVars
    /\ UNCHANGED aux

\* get_translator, line 24: if translator is None
GtCheck(t) ==
    /\ pc[t] = "gt_check"
    /\ pc' = [pc EXCEPT ![t] = IF translator = 0 THEN "gt_create" ELSE "gt_release"]
    /\ UNCHANGED globals
    /\ UNCHANGED <<addresses, inst, self, ret>>
    /\ UNCHANGED batchVars
    /\ UNCHANGED singleVars
    /\ nav' = "none"
    /\ UNCHANGED facadeVars
    /\ UNCHANGED aux

\* get_translator, lines 25-28: translator = AutoTranslator(...); __init__ sets service to None
GtCreate(t) ==
    /\ pc[t] = "gt_create"
    /\ service' = Append(service, 0)
    /\ config' = Append(config, ServerConfig)
    /\ translator' = Len(service) + 1
    /\ pc' = [pc EXCEPT ![t] = "gt_release"]
    /\ UNCHANGED <<translator_lock, sessions, launchLog, calls, closeOutcome>>
    /\ UNCHANGED <<addresses, inst, self, ret>>
    /\ UNCHANGED batchVars
    /\ UNCHANGED singleVars
    /\ nav' = "none"
    /\ UNCHANGED slow_mode
    /\ UNCHANGED aux

\* get_translator, lines 23-28: the with block ends and gives the lock back
GtRelease(t) ==
    /\ pc[t] = "gt_release"
    /\ translator_lock' = IF translator_lock = t THEN 0 ELSE translator_lock
    /\ pc' = [pc EXCEPT ![t] = "gt_return"]
    /\ UNCHANGED <<translator, service, sessions, launchLog, calls, closeOutcome>>
    /\ UNCHANGED <<addresses, inst, self, ret>>
    /\ UNCHANGED batchVars
    /\ UNCHANGED singleVars
    /\ nav' = "none"
    /\ UNCHANGED facadeVars
    /\ UNCHANGED aux

\* get_translator, line 29: return translator, read outside the lock
GtReturn(t) ==
    /\ pc[t] = "gt_return"
    /\ inst' = [inst EXCEPT ![t] = translator]
    /\ pc' = [pc EXCEPT ![t] = "t_check"]
    /\ UNCHANGED globals
    /\ UNCHANGED <<addresses, self, ret>>
    /\ UNCHANGED batchVars
    /\ UNCHANGED singleVars
    /\ nav' = "none"
    /\ UNCHANGED facadeVars
    /\ UNCHANGED aux

\* the handler after get_translator, lines 58-74 and 96-104, with the translate
\* call left out: the request is answered and the thread is free again
Answered(t) ==
    /\ pc[t] = "t_check"
    /\ pc' = [pc EXCEPT ![t] = "idle"]
    /\ addresses' = [addresses EXCEPT ![t] = NoInput]
    /\ UNCHANGED globals
    /\ UNCHANGED <<inst, self, ret>>
    /\ UNCHANGED batchVars
    /\ UNCHANGED singleVars
    /\ nav' = "none"
    /\ UNCHANGED facadeVars
    /\ UNCHANGED aux

\* ------------------------------------------------------------ specifications
InitLocals ==
    /\ pc = [t \in Threads |-> "idle"]
    /\ addresses = [t \in Threads |-> NoInput]
    /\ inst = [t \in Threads |-> 0]
    /\ self = [t \in Threads |-> 0]
    /\ idx = [t \in Threads |-> 0]
    /\ results = [t \in Threads |-> EmptyDict]
    /\ failed = [t \in Threads |-> {}]
    /\ cur = [t \in Threads |-> << >>]
    /\ attempt = [t \in Threads |-> 0]
    /\ attemptsMade = [t \in Threads |-> 0]
    /\ how = [t \in Threads |-> "none"]
    /\ ret = [t \in Threads |-> NoRet]
    /\ recovered = [t \in Threads |-> << >>]
    /\ slow_mode = [t \in Threads |-> FALSE]
    /\ nav = "none"

\* the parts run on their own are not running
AuxIdle ==
    /\ call = NoCall
    /\ answer = NoAnswer
    /\ ext = NoExt
    /\ inp = NoInp

\* the client has constructed its AutoTranslator (AutoTranslator.__init__, lines 583-587)
InitClient ==
    /\ translator = 1
    /\ translator_lock = 0
    /\ service = <<0>>
    /\ config = <<DemoConfig>>
    /\ sessions = << >>
    /\ launchLog = << >>
    /\ calls = 0
    /\ closeOutcome = "none"
    /\ InitLocals

Init == InitClient /\ AuxIdle

\* app.py has been imported: lines 16-17
InitServer ==
    /\ translator = 0
    /\ translator_lock = 0
    /\ service = << >>
    /\ config = << >>
    /\ sessions = << >>
    /\ launchLog = << >>
    /\ calls = 0
    /\ closeOutcome = "none"
    /\ InitLocals
    /\ AuxIdle

Translate(t) ==
    \/ TCheck(t) \/ TCtor(t) \/ TDispatch(t) \/ TbNav(t) \/ TbItem(t)
    \/ TsPage(t) \/ TsSubmit(t) \/ TsExtract(t) \/ TsSoft(t) \/ TsExcept(t)
    \/ TReturn(t)

Next == CallTranslate(Main) \/ CallClose(Main) \/ Translate(Main)

Spec == Init /\ [][Next]_vars

NextServer ==
    \E t \in Threads :
        \/ Request(t) \/ GtAcquire(t) \/ GtCheck(t) \/ GtCreate(t) \/ GtRelease(t)
        \/ GtReturn(t)
        \/ Translate(t)

SpecServer == InitServer /\ [][NextServer]_vars

\* get_translator on its own: the threads' requests go through it and are answered
NextGet ==
    \E t \in Threads :
        \/ Request(t) \/ GtAcquire(t) \/ GtCheck(t) \/ GtCreate(t) \/ GtRelease(t)
        \/ GtReturn(t) \/ Answered(t)

SpecGet == InitServer /\ [][NextGet]_vars

\* AutoTranslator.translate up to its dispatch, each call with its own slow_mode
NextFacade ==
    \/ CallTranslateWith(Main) \/ TCheck(Main) \/ TCtor(Main) \/ Served(Main)
    \/ CallClose(Main)

SpecFacade == Init /\ [][NextFacade]_vars

\* ---------------------------------------------- GoogleTranslateWebService()
\* one constructor run on a host: __init__, lines 131-141
InitLaunch ==
    /\ InitClient
    /\ call \in {[fn |-> "__init__", arg |-> env] : env \in LaunchEnvs}
    /\ answer = NoAnswer
    /\ ext = NoExt
    /\ inp = NoInp

Construct ==
    /\ call.fn = "__init__"
    /\ answer = NoAnswer
    /\ answer' = [kind |-> "init", steps |-> InitSteps(call.arg), ok |-> InitOk(call.arg)]
    /\ UNCHANGED <<main, call, ext, inp>>

NextLaunch == Construct

SpecLaunch == InitLaunch /\ [][NextLaunch]_vars

\* ------------------------------------------------------------ _contains_urdu
\* code points at and around the ends of the two ranges, and Latin letters
\* (A, a, z, U+05FF, U+0600, U+06FE, U+06FF, U+FE6F, U+FE70, U+FEFE, U+FEFF)
CodePoints == {65, 97, 122, 1535, 1536, 1790, 1791, 65135, 65136, 65278, 65279}
Strings == UNION {[1..n -> CodePoints] : n \in 0..MaxLen}

InitUrdu ==
    /\ InitClient
    /\ call \in {[fn |-> "_contains_urdu", arg |-> x] : x \in Strings}
    /\ answer = NoAnswer
    /\ ext = NoExt
    /\ inp = NoInp

CallContainsUrdu ==
    /\ call.fn = "_contains_urdu"
    /\ answer = NoAnswer
    /\ answer' = [kind |-> "bool", val |-> ContainsUrdu(call.arg)]
    /\ UNCHANGED <<main, call, ext, inp>>

NextUrdu == CallContainsUrdu

SpecUrdu == InitUrdu /\ [][NextUrdu]_vars

\* ------------------------------------------------- app.py: the request bodies
\* app.py line 91: len(texts) > 10
MaxBatchSize == 10

\* a JSON value under a key of the body; Absent when the body is no object, is
\* empty, or lacks the key. Of a string only its being one matters here, of an
\* array the types of its items.
Absent == [type |-> "absent"]
Scalars == {[type |-> "null"], [type |-> "number"], [type |-> "string"]}
ItemTypes == {"string", "number"}
Arrays == {[type |-> "array", items |-> l] :
              l \in UNION {[1..n -> ItemTypes] : n \in 0..MaxTexts}}

\* POST /translate with the value under "text", POST /translate/batch with the
\* value under "texts"
Bodies ==
    {[route |-> "/translate", field |-> f] :
         f \in {Absent} \cup Scalars \cup {[type |-> "array", items |-> << >>]}}
    \cup {[route |-> "/translate/batch", field |-> f] :
         f \in {Absent} \cup Scalars \cup Arrays}

\* lines 48-49 and 87-92: the handler answers 400 itself
Rejected(body) ==
    IF body.route = "/translate"
    THEN body.field = Absent
    ELSE \/ body.field = Absent
         \/ body.field.type # "array"
         \/ Len(body.field.items) > MaxBatchSize

InitHttp ==
    /\ InitClient
    /\ call \in {[fn |-> "handler", arg |-> b] : b \in Bodies}
    /\ answer = NoAnswer
    /\ ext = NoExt
    /\ inp = NoInp

\* translate(), lines 46-78, and translate_batch(), lines 85-108: 400, or the call of
\* translator_instance.translate and then 200, or 500 when something raised
Handle ==
    /\ call.fn = "handler"
    /\ answer = NoAnswer
    /\ IF Rejected(call.arg)
       THEN answer' = [kind |-> "http", status |-> 400, forwarded |-> FALSE]
       ELSE \E st \in {200, 500} :
               answer' = [kind |-> "http", status |-> st, forwarded |-> TRUE]
    /\ UNCHANGED <<main, call, ext, inp>>

NextHttp == Handle

SpecHttp == InitHttp /\ [][NextHttp]_vars

\* ------------------------------- translate_single, lines 421-447: the input
\* text.split(): the maximal runs of non-whitespace
RECURSIVE Split(_)
Split(text) ==
    IF text = << >> THEN << >>
    ELSE IF Head(text) \in Whitespace THEN Split(Tail(text))
    ELSE LET stops == {i \in DOMAIN text : text[i] \in Whitespace}
             n == IF stops = {} THEN Len(text)
                  ELSE (CHOOSE i \in stops : \A j \in stops : i <= j) - 1
         IN  <<SubSeq(text, 1, n)>> \o Split(SubSeq(text, n + 1, Len(text)))

\* lines 437-444: the keys sent, a space before every word but the first
RECURSIVE KeysSent(_)
KeysSent(words) ==
    IF words = << >> THEN << >>
    ELSE IF Len(words) = 1 THEN Head(words)
    ELSE Head(words) \o <<32>> \o KeysSent(Tail(words))

\* a value clear that does nothing
ClearValueNoop(field) == field
\* line 432: arguments[0].value = ''
ClearValue(field) == << >>

\* texts that pass line 392: "a", "ab", "a b", " a  b"
InputTexts == {<<97>>, <<97, 98>>, <<97, 32, 98>>, <<32, 97, 32, 32, 98>>}
\* what the field can hold when an attempt starts: nothing, or what an earlier
\* attempt or request typed, in full or in part
LeftInField == {<< >>, <<97>>, <<97, 32>>, <<120, 121>>}

InitInput ==
    /\ InitClient
    /\ call = NoCall
    /\ answer = NoAnswer
    /\ ext = NoExt
    /\ inp \in {[at |-> "click", text |-> x, before |-> f, field |-> f, sent |-> 0] :
                   x \in InputTexts, f \in LeftInField}

\* a driver call of the attempt raises: the handler at line 478 takes over
InpRaise ==
    /\ inp.at \in {"click", "select_delete", "clear_value", "type"}
    /\ inp' = [inp EXCEPT !.at = "raised"]
    /\ UNCHANGED <<main, call, answer, ext>>

\* line 422: input_area.click()
InpClick ==
    /\ inp.at = "click"
    /\ inp' = [inp EXCEPT !.at = "select_delete"]
    /\ UNCHANGED <<main, call, answer, ext>>

\* lines 426-428: Ctrl+A, Delete; whether the page selects everything is the page's business
InpSelectDelete ==
    /\ inp.at = "select_delete"
    /\ \E f \in {<< >>, inp.field} :
          inp' = [inp EXCEPT !.at = "clear_value", !.field = f]
    /\ UNCHANGED <<main, call, answer, ext>>

\* line 432
InpClearValue ==
    /\ inp.at = "clear_value"
    /\ inp' = [inp EXCEPT !.at = "type", !.field = ClearValue(inp.field)]
    /\ UNCHANGED <<main, call, answer, ext>>

\* lines 439 and 443: one send_keys
InpType ==
    /\ inp.at = "type"
    /\ inp.sent < Len(KeysSent(Split(inp.text)))
    /\ inp' = [inp EXCEPT !.field = Append(inp.field, KeysSent(Split(inp.text))[inp.sent + 1]),
                           !.sent = inp.sent + 1]
    /\ UNCHANGED <<main, call, answer, ext>>

\* lines 447-450: every key is sent; wait, then extract
InpDone ==
    /\ inp.at = "type"
    /\ inp.sent = Len(KeysSent(Split(inp.text)))
    /\ inp' = [inp EXCEPT !.at = "extract"]
    /\ UNCHANGED <<main, call, answer, ext>>

NextInput ==
    InpClick \/ InpSelectDelete \/ InpClearValue \/ InpType \/ InpDone \/ InpRaise

SpecInput == InitInput /\ [][NextInput]_vars

\* ------------------------------------------------------ _extract_translation
\* translation_selectors, lines 495-509
NumSelectors == 8
\* position of the fallback lookup of lines 524-531 after the selectors
Fallback == NumSelectors + 1

\* element texts: "", "a", alef, " " alef, beh
ElemTexts == {<< >>, <<97>>, <<1575>>, <<32, 1575>>, <<1576>>}
\* an element: its text, or stale (reading element.text raises)
Elems == {[stale |-> FALSE, text |-> x] : x \in ElemTexts}
             \cup {[stale |-> TRUE, text |-> << >>]}
\* what one find_elements call does: raises, or returns elements
Lookups == {[raised |-> TRUE, elems |-> << >>]}
               \cup {[raised |-> FALSE, elems |-> l] :
                        l \in UNION {[1..n -> Elems] : n \in 0..MaxFound}}
NoLookup == [raised |-> FALSE, elems |-> << >>]
NoText == [some |-> FALSE, text |-> << >>]
SomeText(x) == [some |-> TRUE, text |-> x]

\* a test that takes any non-empty text
QualifiesAnyText(x) == x # << >>
\* lines 517 and 528: text and self._contains_urdu(text), text being stripped
Qualifies(x) == x # << >> /\ ContainsUrdu(x)

\* the least member of a non-empty set of positions
Least(S) == CHOOSE i \in S : \A j \in S : i <= j
\* the position where the loop over the elements raises, past the end if nowhere
FirstStale(elems) ==
    LET st == {i \in DOMAIN elems : elems[i].stale}
    IN  IF st = {} THEN Len(elems) + 1 ELSE Least(st)
\* the position where the loop over the elements returns, 0 if it does not:
\* the first qualifying element before any stale one
FirstHit(elems) ==
    LET hits == {i \in DOMAIN elems : /\ i < FirstStale(elems)
                                      /\ Qualifies(Strip(elems[i].text))}
    IN  IF hits = {} THEN 0 ELSE Least(hits)
\* the first element of the list with a qualifying text, read or not
FirstQualifying(elems) ==
    LET q == {i \in DOMAIN elems : ~elems[i].stale /\ Qualifies(Strip(elems[i].text))}
    IN  IF q = {} THEN NoText ELSE SomeText(Strip(elems[Least(q)].text))

\* ext.first: the first qualifying element text the page has offered to the
\* lookups so far, in selector order and then element order
InitExtract ==
    /\ InitClient
    /\ call = NoCall
    /\ answer = NoAnswer
    /\ inp = NoInp
    /\ ext = [at |-> "find", sel |-> 1, found |-> NoLookup, first |-> NoText, out |-> << >>]

\* lines 513 and 525: driver.find_elements
ExtFind ==
    /\ ext.at = "find"
    /\ \E l \in Lookups : ext' = [ext EXCEPT !.at = "scan", !.found = l]
    /\ UNCHANGED <<main, call, answer, inp>>

\* lines 514-521 and 526-533: the loop over the elements found, its return, its
\* except clause, and the return "" after the fallback
ExtScan ==
    /\ ext.at = "scan"
    /\ LET elems == ext.found.elems
           hit == FirstHit(elems)
           first == IF ext.first.some THEN ext.first ELSE FirstQualifying(elems)
       IN  IF hit > 0
           THEN ext' = [ext EXCEPT !.at = "returned", !.first = first,
                                   !.out = Strip(elems[hit].text)]
           ELSE IF ext.sel < Fallback
           THEN ext' = [ext EXCEPT !.at = "find", !.first = first, !.sel = ext.sel + 1]
           ELSE ext' = [ext EXCEPT !.at = "returned", !.first = first, !.out = << >>]
    /\ UNCHANGED <<main, call, answer, inp>>

NextExtract == ExtFind \/ ExtScan

SpecExtract == InitExtract /\ [][NextExtract]_vars


\* ------------------------------------------------------------------ claims
\* translate_single has just returned to translate (a string call) or to the
\* loop of translate_batch (an item)
SingleReturned(t) ==
    \/ pc[t] = "t_return" /\ addresses[t].kind = "str" /\ ret[t].err = "none"
    \/ pc[t] = "tb_item" /\ idx[t] > 1
\* the value it returned
SingleValue(t) ==
    IF addresses[t].kind = "str" THEN ret[t].val[addresses[t].val] ELSE results[t][cur[t]]

\* steps translate_single still has before it at most
Rank(p) ==
    CASE p = "ts_page" -> 5 [] p = "ts_submit" -> 4 [] p = "ts_extract" -> 3
      [] p = "ts_soft" -> 2 [] p = "ts_except" -> 1 [] OTHER -> 0
Measure(p, a) == 6 * (3 - a) + Rank(p)

C1_State ==
    \A t \in Threads :
        /\ attemptsMade[t] <= 3
        /\ pc[t] \in SinglePcs => attempt[t] \in 0..2 /\ ENABLED Translate(t)
        /\ SingleReturned(t) =>
              /\ how[t] \in {"blank", "ok", "ok_soft", "gaveup"}
              /\ how[t] = "gaveup" => SingleValue(t) = cur[t]
C1_Step ==
    \A t \in Threads :
        (pc[t] \in SinglePcs /\ pc'[t] \in SinglePcs /\ pc'[t] # pc[t])
            => Measure(pc'[t], attempt'[t]) < Measure(pc[t], attempt[t])
\* C1: whatever fails (navigation, input not found, empty or unchanged extraction),
\* translate_single submits at most 3 times, every step of it brings it nearer to
\* its return and it is never stuck, it never raises, and when it gives up after
\* the last attempt it returns the original text.
C1_RetryBoundedIdentity == []C1_State /\ [][C1_Step]_vars
\* C1 witness: a string call that submitted three times and gave up
C1_Witness ==
    /\ pc[Main] = "t_return" /\ addresses[Main].kind = "str"
    /\ how[Main] = "gaveup" /\ attemptsMade[Main] = 3
    /\ ret[Main].val = Single(addresses[Main].val, addresses[Main].val)

\* C2 (the claim as stated): translate on a list returns one entry for each input
\* string, keyed by it, and no other entry, also when the batch's first navigation
\* fails; an item that was not translated maps to itself.
C2_BatchCoversInputs ==
    \A t \in Threads :
        (pc[t] = "t_return" /\ addresses[t].kind = "list") =>
            /\ DOMAIN ret[t].val = Range(addresses[t].val)
            /\ Cardinality(DOMAIN ret[t].val) = Cardinality(Range(addresses[t].val))
            /\ \A i \in failed[t] : ret[t].val[addresses[t].val[i]] = addresses[t].val[i]

\* C3 (the claim as stated): requests that arrive before a session exists create
\* one session between them.
C3_OneSession == Len(sessions) <= 1

\* C4 (the claim as stated): no two callers are inside the same browser session at
\* once, so no caller's submit falls between another's submit and extract.
C4_Serialized ==
    \A t1, t2 \in Threads :
        (t1 # t2 /\ pc[t1] \in SessionPcs /\ pc[t2] \in SessionPcs) => self[t1] # self[t2]

\* C5 (the claim as stated): a translate call never runs on a session that close()
\* has closed; it creates a new one.
C5_NewSessionAfterClose ==
    \A t \in Threads : pc[t] \in SessionPcs => sessions[self[t]].closes = 0

\* C6: close() returns normally whenever it is called: with no session yet, after
\* a translate, after an earlier close, and when driver.quit() raises.
C6_CloseNeverRaises ==
    /\ closeOutcome \in {"none", "no_service", "quit", "quit_error"}
    /\ closeOutcome = "no_service" <=> (closeOutcome # "none" /\ service[translator] = 0)
\* C6 witness: the second close() of a session, whose driver.quit() raised
C6_Witness ==
    /\ closeOutcome = "quit_error"
    /\ sessions[service[translator]].closes = 2

\* C7 (the claim as stated): once the batch loop has started, an item that gives up
\* does not end it: every item is attempted, every input has its entry, and each
\* failed item maps to itself in the returned mapping.
C7_FailedItemMapsToItself ==
    \A t \in Threads :
        (pc[t] = "t_return" /\ addresses[t].kind = "list" /\ idx[t] > 1) =>
            /\ idx[t] = Len(addresses[t].val) + 1
            /\ DOMAIN ret[t].val = Range(addresses[t].val)
            /\ \A i \in failed[t] : ret[t].val[addresses[t].val[i]] = addresses[t].val[i]
\* C7 (amended): as above, but a failed item maps to itself provided the same string
\* does not occur again later in the batch (equal inputs share one entry, which
\* holds the result of the last of them).
C7_FailedItemKeepsSiblings ==
    \A t \in Threads :
        (pc[t] = "t_return" /\ addresses[t].kind = "list" /\ idx[t] > 1) =>
            LET list == addresses[t].val IN
            /\ idx[t] = Len(list) + 1
            /\ DOMAIN ret[t].val = Range(list)
            /\ \A i \in failed[t] :
                  (\A j \in (i + 1)..Len(list) : list[j] # list[i])
                      => ret[t].val[list[i]] = list[i]
\* C7 witness: a batch whose first item gave up and whose second, different, item
\* was translated
C7_Witness ==
    /\ pc[Main] = "t_return" /\ addresses[Main].kind = "list"
    /\ Len(addresses[Main].val) = 2
    /\ failed[Main] = {1}
    /\ addresses[Main].val[1] # addresses[Main].val[2]
    /\ ret[Main].val[addresses[Main].val[1]] = addresses[Main].val[1]
    /\ ret[Main].val[addresses[Main].val[2]] # addresses[Main].val[2]

\* C8 (the claim as stated): a failed launch reaches the caller of translate as an
\* exception, not as an identity result.
C8_LaunchFailurePropagates ==
    \A t \in Threads :
        (pc[t] = "t_return" /\ ret[t].err = "launch") => ret[t].kind = "raised"

\* C9 (the claim as stated): after a constructor run has failed, no later call runs
\* the constructor (provisioning and launch) again.
C9_NoRelaunchAfterFailure ==
    \A i \in 1..(Len(launchLog) - 1) : launchLog[i] # "failed"

\* the constructor run tried the step
Attempted(step) == \E i \in DOMAIN answer.steps : answer.steps[i] = step

\* C11 (the claim as stated): the steps of the chain (managed provisioning, PATH,
\* well-known locations, download of the pinned release) are tried in this order,
\* a step only if every earlier step was tried and failed, none after a success.
C11_StrictOrderFirstSuccessWins ==
    answer.kind = "init" =>
        /\ \A i, j \in DOMAIN answer.steps :
              \A m, n \in DOMAIN Chain :
                 (answer.steps[i] = Chain[m] /\ answer.steps[j] = Chain[n] /\ i < j) => m < n
        /\ \A m, n \in DOMAIN Chain :
              (m < n /\ Attempted(Chain[n])) =>
                  (Attempted(Chain[m]) /\ ~Found(call.arg, Chain[m]))

\* C12 (the claim as stated): when the packages are installed and the constructor
\* raises all the same, every step of the chain, the download of the pinned release
\* included, has been tried and has failed.
C12_FatalOnlyAfterWholeChain ==
    (answer.kind = "init" /\ ~answer.ok /\ call.arg.pip) =>
        \A m \in DOMAIN Chain : Attempted(Chain[m]) /\ ~Found(call.arg, Chain[m])

\* the blocks the claim names: Arabic U+0600..U+06FF, Arabic Presentation Forms-B
\* U+FE70..U+FEFF; and the Latin letters A-Z, a-z
ArabicBlock == 1536..1791
PresentationFormsB == 65136..65279
LatinLetters == (65..90) \cup (97..122)

\* C13 (the claim as stated): _contains_urdu is true of every non-empty string made
\* only of code points of the two blocks, and false of every string made only of
\* Latin letters.
C13_ScriptDetection ==
    (call.fn = "_contains_urdu" /\ answer.kind = "bool") =>
        /\ (call.arg # << >> /\ Range(call.arg) \subseteq ArabicBlock \cup PresentationFormsB)
               => answer.val
        /\ Range(call.arg) \subseteq LatinLetters => ~answer.val

\* what the claim calls a missing or invalid field
InvalidField(body) ==
    IF body.route = "/translate"
    THEN body.field.type # "string"
    ELSE \/ body.field.type # "array"
         \/ Len(body.field.items) > 10
         \/ \E i \in DOMAIN body.field.items : body.field.items[i] # "string"

\* C14 (the claim as stated): a request whose text is absent or not a string, or
\* whose texts is absent, not a list, longer than 10 items or holds a non-string
\* item, is answered with 400 and is not forwarded to the translator.
C14_InvalidRequestRejected ==
    (call.fn = "handler" /\ answer.kind = "http" /\ InvalidField(call.arg)) =>
        (answer.status = 400 /\ ~answer.forwarded)

\* C15: whenever translate_single returns something other than its input, it
\* returned from line 454 (main extraction) or line 469 (re-check of the soft
\* recovery), and the value is non-empty, differs from the text and holds at least
\* one code point of the target script.
C15_TranslationIsTargetScript ==
    \A t \in Threads :
        (SingleReturned(t) /\ SingleValue(t) # cur[t]) =>
            /\ how[t] \in {"ok", "ok_soft"}
            /\ SingleValue(t) # << >>
            /\ ContainsUrdu(SingleValue(t))
\* C15 witness: a string call answered by the re-check of the soft recovery
C15_Witness ==
    /\ pc[Main] = "t_return" /\ addresses[Main].kind = "str"
    /\ how[Main] = "ok_soft"
    /\ ret[Main].val[addresses[Main].val] # addresses[Main].val
    /\ ContainsUrdu(ret[Main].val[addresses[Main].val])

C16_Step ==
    \A t \in Threads :
        /\ (pc[t] = "ts_extract" /\ pc'[t] # "ts_extract") =>
              \/ how'[t] = "ok" /\ pc'[t] \notin SinglePcs
              \/ /\ attempt[t] < 2
                 /\ pc'[t] = "ts_soft" /\ attempt'[t] = attempt[t] /\ nav' = "none"
              \/ attempt[t] = 2 /\ how'[t] = "gaveup" /\ pc'[t] \notin SinglePcs
        /\ (pc[t] = "ts_soft" /\ pc'[t] # "ts_soft") =>
              \/ how'[t] = "ok_soft" /\ pc'[t] \notin SinglePcs
              \/ pc'[t] = "ts_page" /\ attempt'[t] = attempt[t] + 1 /\ nav' = "none"
        /\ (pc[t] = "ts_except" /\ pc'[t] # "ts_except") =>
              \/ /\ attempt[t] < 2
                 /\ nav' \in {"ok", "raised"}
                 /\ pc'[t] = "ts_page" /\ attempt'[t] = attempt[t] + 1
              \/ /\ attempt[t] = 2
                 /\ nav' = "none" /\ how'[t] = "gaveup" /\ pc'[t] \notin SinglePcs
        /\ (pc[t] \in SinglePcs /\ pc'[t] \in SinglePcs /\ attempt'[t] # attempt[t]) =>
              pc[t] \in {"ts_soft", "ts_except"}
\* C16: an extraction without usable text, with attempts left, is followed by one
\* soft recovery (lines 459-471) and only then by the next attempt, unless the
\* recovery's re-check returns a translation; an exception in an attempt, with
\* attempts left, is followed by one call of _navigate_to_translator and then by
\* the next attempt, whether that call returned or raised. The next attempt starts
\* from nowhere else.
C16_RecoveryBeforeNextAttempt == [][C16_Step]_vars
\* C16 witness: the third attempt starts although the re-navigation after the
\* second attempt's exception raised
C16_Witness ==
    /\ pc[Main] = "ts_page" /\ attempt[Main] = 2
    /\ nav = "raised"

C17_Step ==
    \A t \in Threads :
        /\ (pc[t] = "ts_page" /\ pc'[t] # "ts_page") =>
              /\ nav' # "none" => ~OnTranslatePage(self[t])
              /\ (pc'[t] = "ts_submit" /\ nav' = "none") => OnTranslatePage(self[t])
        /\ (pc[t] = "ts_submit" /\ pc'[t] = "ts_extract") => OnTranslatePage(self[t])
\* C17 (the claim as stated): an attempt navigates exactly when the session is not
\* on the translation page, and the text is submitted (lines 400-447) only while
\* the session is on the translation page.
C17_SubmitOnlyOnTranslationPage == [][C17_Step]_vars

C18_Step ==
    \A t \in Threads :
        addresses[t].kind = "list" =>
            LET list == addresses[t].val IN
            /\ (pc[t] = "tb_nav" /\ pc'[t] # "tb_nav") => nav' # "none"
            /\ (pc[t] \in SessionPcs /\ nav' # "none") =>
                  \/ pc[t] = "tb_nav"
                  \/ pc[t] = "ts_except"
                  \/ sessions[self[t]].url # "translate"
            /\ (pc[t] = "tb_item" /\ idx[t] <= Len(list)
                               /\ (pc'[t] # "tb_item" \/ idx'[t] # idx[t])) =>
                  cur'[t] = list[idx[t]]
            /\ (pc[t] \in SessionPcs /\ idx'[t] # idx[t]) =>
                  /\ idx'[t] = idx[t] + 1
                  /\ cur[t] = list[idx[t]] \/ pc[t] = "tb_item"
                  /\ list[idx[t]] \in DOMAIN results'[t]
\* C18: translate_batch navigates once, at its start; after that a navigation
\* happens only in the handler of an attempt's exception or in an attempt that finds
\* the session off the translation page; the items are handed to translate_single
\* one at a time in the order of the list, each result stored before the next item.
C18_OneNavigationPerBatch == [][C18_Step]_vars
\* C18 witness: the second item of a batch is about to be typed, the first having
\* been translated, and its attempt made no navigation
C18_Witness ==
    /\ addresses[Main].kind = "list" /\ idx[Main] = 2
    /\ pc[Main] = "ts_submit" /\ attempt[Main] = 0
    /\ nav = "none"
    /\ sessions[self[Main]].url = "translate"
    /\ results[Main][addresses[Main].val[1]] # addresses[Main].val[1]

C19_State ==
    inp.at = "extract" => inp.field = KeysSent(Split(inp.text))
C19_Step ==
    /\ (inp.at # "idle" /\ inp'.field # inp.field /\ inp'.field # << >>) =>
          /\ inp.at = "type" /\ inp'.sent = inp.sent + 1
          /\ inp.sent = 0 => inp.field = << >>
    /\ (inp.at # "idle" /\ inp'.at = "type" /\ inp.at # "type") =>
          inp.at = "clear_value" /\ inp'.field = << >>
    /\ (inp.at # "idle" /\ inp'.at = "clear_value") => inp.at = "select_delete"
\* C19: in an attempt the field is cleared, by select-all and delete and then by the
\* value clear, before the first key of the text is sent, whatever it held before;
\* when the attempt reaches its extraction the field holds the keys sent in this
\* attempt (the words of the text, one space between them) and nothing else.
C19_FieldClearedBeforeTyping == []C19_State /\ [][C19_Step]_vars
\* C19 witness: an attempt reaches extraction having found old content in the
\* field, with more than one word typed
C19_Witness ==
    /\ inp.at = "extract"
    /\ inp.before # << >>
    /\ Len(Split(inp.text)) = 2
    /\ inp.field = KeysSent(Split(inp.text))

\* C20 (the claim as stated): _extract_translation returns the stripped text of the
\* first element, in selector order and then element order (the fallback lookup
\* last), whose text is non-empty and of the target script, and "" when there is
\* none.
C20_FirstQualifyingElement ==
    ext.at = "returned" =>
        ext.out = (IF ext.first.some THEN ext.first.text ELSE << >>)

\* the texts of the elements of a lookup that are read: those before the first
\* element whose text cannot be read, none when the lookup itself raised
ReadTexts(lookup) ==
    LET elems == lookup.elems
        n == CHOOSE k \in 0..Len(elems) :
                /\ \A i \in 1..k : ~elems[i].stale
                /\ k < Len(elems) => elems[k + 1].stale
    IN  [i \in 1..n |-> Strip(elems[i].text)]
TargetScript(x) == x # << >> /\ \E i \in DOMAIN x : x[i] \in urdu_range \cup urdu_range_2
C20_State ==
    ext.at # "idle" =>
        /\ ext.at \in {"find", "scan", "returned"}
        /\ ext.sel \in 1..9
        /\ ext.at # "returned" => ENABLED NextExtract
        /\ (ext.at = "returned" /\ ext.out # << >>) =>
              (Strip(ext.out) = ext.out /\ TargetScript(ext.out))
C20_Step ==
    /\ ext.at = "find" => (ext'.at = "scan" /\ ext'.sel = ext.sel)
    /\ ext.at = "scan" =>
          LET read == ReadTexts(ext.found)
              hits == {i \in DOMAIN read : TargetScript(read[i])}
          IN  IF hits # {}
              THEN ext'.at = "returned" /\ ext'.out = read[Least(hits)]
              ELSE IF ext.sel < 9
              THEN ext'.at = "find" /\ ext'.sel = ext.sel + 1
              ELSE ext'.at = "returned" /\ ext'.out = << >>
\* C20 (amended): the selectors are tried in their order and the right-to-left
\* fallback after them; a lookup is given up at its first failure (find_elements
\* raising, or an element whose text cannot be read) and the next one is tried; the
\* function returns the stripped text of the first element it read whose text is
\* non-empty and of the target script, "" when it read none, and never raises.
C20_FirstQualifyingElementRead == []C20_State /\ [][C20_Step]_vars
\* C20 witness: a qualifying element stood behind an unreadable one of the same
\* lookup, and the function returned something else
C20_Witness ==
    /\ ext.at = "returned"
    /\ ext.first.some
    /\ ext.out # ext.first.text

\* a code point the two range() objects of the code hold
InConfiguredRanges(c) == (1536 <= c /\ c < 1791) \/ (65136 <= c /\ c < 65279)

\* C21: _contains_urdu is true of a string exactly when at least one of its code
\* points lies in the ranges of the code, whatever the others are and wherever it
\* stands; it is false of the empty string.
C21_AnyCharacterSuffices ==
    (call.fn = "_contains_urdu" /\ answer.kind = "bool") =>
        /\ answer.val <=> (\E i \in DOMAIN call.arg : InConfiguredRanges(call.arg[i]))
        /\ call.arg = << >> => ~answer.val
\* C21 witness: a Latin letter followed by one code point of the ranges is
\* classified as target script
C21_Witness ==
    /\ call.fn = "_contains_urdu" /\ answer.kind = "bool"
    /\ call.arg = <<97, 1536>>
    /\ answer.val

\* how often the constructor run took the step
Times(step) == Cardinality({i \in DOMAIN answer.steps : answer.steps[i] = step})
\* the position in the log of the webdriver.Chrome call that gave the session
Connected ==
    CHOOSE i \in DOMAIN answer.steps :
        /\ answer.steps[i] \in {"launch", "launch_download"}
        /\ \A j \in DOMAIN answer.steps :
              answer.steps[j] \in {"launch", "launch_download"} => j <= i
LaunchedSession == call.fn = "__init__" /\ answer.kind = "init" /\ answer.ok

\* C22 (the claim as stated): every session that is created has had each of the
\* two injections issued exactly once, after the webdriver.Chrome call that gave
\* it and before any page is loaded.
C22_BothInjectionsOnce ==
    LaunchedSession =>
        /\ Times("inject_webdriver") = 1
        /\ Times("inject_languages") = 1
        /\ \A i \in DOMAIN answer.steps :
              answer.steps[i] \in {"inject_webdriver", "inject_languages"} => i > Connected
        /\ NewSession.url = "blank"
\* C22 (amended): every session that is created has had the first injection issued
\* exactly once, right after the webdriver.Chrome call that gave it, by either
\* launch path; the second injection follows it exactly once when the first
\* returned and is not issued when the first raised; no page is loaded before
\* them; and neither injection's failure makes the constructor raise.
C22_InjectionsAfterConnect ==
    (call.fn = "__init__" /\ answer.kind = "init") =>
        /\ answer.ok <=> /\ call.arg.pip
                         /\ call.arg.wdm \/ call.arg.which \/ call.arg.common
                         /\ call.arg.chrome \/ (call.arg.manual /\ call.arg.chromeManual)
        /\ answer.ok =>
              /\ Times("inject_webdriver") = 1
              /\ answer.steps[Connected + 1] = "inject_webdriver"
              /\ Times("inject_languages") = (IF call.arg.flag THEN 1 ELSE 0)
              /\ call.arg.flag => answer.steps[Connected + 2] = "inject_languages"
              /\ NewSession.url = "blank"
        /\ ~answer.ok => Times("inject_webdriver") + Times("inject_languages") = 0
\* C22 witness: a session launched with the downloaded driver whose first
\* injection raised
C22_Witness ==
    /\ LaunchedSession
    /\ Attempted("launch_download")
    /\ ~call.arg.flag
    /\ Times("inject_webdriver") = 1

\* ------------------------------------------------------------------- C23
Count(seq, x) == Cardinality({i \in DOMAIN seq : seq[i] = x})

\* C23, in states: a request has made at most 2 soft recoveries and at most 2
\* recovery re-navigations, and while an attempt is under way every earlier
\* attempt of the request has made exactly one recovery.
C23_State ==
    \A t \in Threads :
        /\ Count(recovered[t], "soft") <= 2
        /\ Count(recovered[t], "renav") <= 2
        /\ pc[t] \in SinglePcs => Len(recovered[t]) = attempt[t]

\* C23, in steps: a recovery is the first one of its attempt and ends the
\* attempt (the loop continues with the next attempt, or the request returns),
\* so no attempt makes both; the handler's navigation is a recovery
\* re-navigation; and the third attempt makes no recovery: its handler leaves
\* the browser alone.
C23_Step ==
    \A t \in Threads :
        /\ (recovered'[t] # recovered[t] /\ recovered'[t] # << >>) =>
              /\ Len(recovered'[t]) = Len(recovered[t]) + 1
              /\ Len(recovered[t]) = attempt[t]
              /\ attempt[t] < NumAttempts - 1
              /\ pc[t] \in {"ts_soft", "ts_except"}
              /\ \/ attempt'[t] = attempt[t] + 1 /\ pc'[t] = "ts_page"
                 \/ pc'[t] \notin SinglePcs
        /\ (pc[t] = "ts_soft" /\ pc'[t] # pc[t]) =>
              recovered'[t] = Append(recovered[t], "soft")
        /\ (pc[t] = "ts_except" /\ (nav' # "none" \/ sessions' # sessions)) =>
              recovered'[t] = Append(recovered[t], "renav")
        /\ (pc[t] \in SinglePcs /\ attempt[t] = NumAttempts - 1) =>
              /\ recovered'[t] = recovered[t]
              /\ pc[t] = "ts_except" => (nav' = "none" /\ sessions' = sessions)

\* C23: within one request an attempt makes the soft recovery or the recovery
\* re-navigation, never both; a request makes at most 2 of each; and nothing
\* is recovered after the third attempt.
C23_OneRecoveryPerAttempt == []C23_State /\ [][C23_Step]_vars

\* a request that made a soft recovery in one attempt and a re-navigation in
\* another, and then gave up after its third attempt
C23_Witness ==
    \E t \in Threads :
        /\ Count(recovered[t], "soft") = 1
        /\ Count(recovered[t], "renav") = 1
        /\ attempt[t] = NumAttempts - 1
        /\ how[t] = "gaveup"

\* ------------------------------------------------------------------- C24
\* the step calls translate_single
CallsSingle(t) ==
    \/ pc[t] = "t_dispatch" /\ addresses[t].kind = "str"
    \/ pc[t] = "tb_item" /\ idx[t] <= Len(addresses[t].val)
\* with this argument
SingleArg(t) ==
    IF addresses[t].kind = "str" THEN addresses[t].val ELSE addresses[t].val[idx[t]]
WhitespaceOnly(text) == \A i \in DOMAIN text : text[i] \in Whitespace

\* C24, in steps: the call with an empty or whitespace-only string is over in
\* the step that makes it: the argument comes back as the value, the browser
\* is as it was, nothing was navigated, nothing was typed and no attempt began.
C24_Step ==
    \A t \in Threads :
        (CallsSingle(t) /\ pc'[t] # pc[t] /\ WhitespaceOnly(SingleArg(t))) =>
            /\ pc'[t] \notin SinglePcs
            /\ how'[t] = "blank"
            /\ IF addresses[t].kind = "str"
               THEN ret'[t] = Returned(Single(SingleArg(t), SingleArg(t)), "none")
               ELSE results'[t] = Put(results[t], SingleArg(t), SingleArg(t))
            /\ sessions' = sessions
            /\ nav' = "none"
            /\ attemptsMade'[t] = 0
            /\ recovered'[t] = << >>

\* C24: translate_single with an empty or whitespace-only string returns that
\* string unchanged and does nothing with the browser: no URL check, no
\* navigation, no typing, no extraction.
C24_BlankReturnedUntouched == [][C24_Step]_vars

\* translate_single(" ") has returned " "
C24_Witness ==
    \E t \in Threads :
        /\ SingleReturned(t)
        /\ cur[t] = <<32>>
        /\ how[t] = "blank"
        /\ SingleValue(t) = <<32>>
        /\ attemptsMade[t] = 0

\* ------------------------------------------------------------------- C25
\* C25: however the concurrent requests interleave, get_translator constructs
\* one AutoTranslator only (service has one entry for each one constructed),
\* and every call of it returns that one: a thread that has its answer from
\* get_translator holds the first and only instance, which is also what the
\* global names, and any two threads hold the same one.
C25_OneTranslatorInstance ==
    /\ Len(service) <= 1
    /\ \A t \in Threads :
          pc[t] = "t_check" =>
              /\ Len(service) = 1
              /\ inst[t] = 1
              /\ translator = inst[t]
    /\ \A t1, t2 \in Threads :
          (inst[t1] # 0 /\ inst[t2] # 0) => inst[t1] = inst[t2]

\* every thread has come back from get_translator with the same instance, and
\* all but one of them found it already there
C25_Witness ==
    /\ \A t \in Threads : pc[t] = "t_check" /\ inst[t] = 1
    /\ calls = NumThreads

\* ------------------------------------------------------------------- C26
\* C26, in steps: a session keeps the timing it was created with; a call that
\* finds a session goes on with it and creates none, whatever its slow_mode;
\* and an AutoTranslator's session, once there, is never exchanged for another.
C26_Step ==
    /\ \A s \in DOMAIN sessions :
          /\ sessions'[s].typing_delay = sessions[s].typing_delay
          /\ sessions'[s].wait_time = sessions[s].wait_time
    /\ \A t \in Threads :
          (pc[t] = "t_check" /\ pc'[t] # pc[t] /\ service[inst[t]] # 0) =>
              /\ pc'[t] = "t_dispatch"
              /\ sessions' = sessions
              /\ service' = service
    /\ \A i \in DOMAIN service :
          service'[i] # service[i] => service[i] = 0

\* C26 (the claim as stated): the timing configuration of a session is fixed
\* when the session is created; once a session exists the slow_mode of later
\* translate calls has no effect, and a translate call never replaces an
\* existing session.
C26_SessionNeverReplaced == [][C26_Step]_vars

\* what holds of every call of one client, one after the other: the session the
\* AutoTranslator has is the first it created, with the timing of the call that
\* created it
C26_FirstSessionKept ==
    /\ [][C26_Step]_vars
    /\ [](\A i \in DOMAIN service : service[i] \in {0, 1})

\* a call with slow_mode has come to a session created without it
C26_LaterSlowCall ==
    /\ pc[Main] = "t_dispatch"
    /\ slow_mode[Main]
    /\ service[inst[Main]] # 0
    /\ sessions[service[inst[Main]]].wait_time = DemoConfig.wait_time
    /\ Len(launchLog) = 1

====
